---- MODULE Spec2Model ----
(***************************************************************************)
(* AuthService of auth-ms (src/unnamed/part_000): registerUser, loginUser, *)
(* verifyUser, changePassword and updateUser over a Mongoose user          *)
(* collection, bcrypt and the JWT service.                                 *)
(*                                                                         *)
(* registerUser is cut between its lookup (findOne) and its write (create),*)
(* the two store round trips that calls in flight at once interleave; the  *)
(* other handlers are one action each.  Every handler, or step, is an      *)
(* operator from the store and the call's input to the store and the       *)
(* response, and its action applies it.                                    *)
(*                                                                         *)
(* Strings are modelled by what the code does with them: a stored password *)
(* is either the text bcrypt.hashSync produced (a salt and the digest of   *)
(* salt and password) or raw text written as it came; a token is a payload *)
(* under the signature of a secret.  Token expiry is left out: the         *)
(* JwtModule registration that sets it is not part of the sources.         *)
(***************************************************************************)
EXTENDS Naturals, Sequences, FiniteSets

VARIABLES users, calls, resp

vars == <<users, calls, resp>>

\* ---------------------------------------------------------------- bounds
\* Stored users and registrations in flight, together.
MaxUsers == 2

Emails == {"a@x.com", "b@x.com"}
Usernames == {"ann", "bob"}
Passwords == {"Secret123!", "Hunter22$x"}
Salts == {"s1", "s2"}
Absent == "-"

Procs == {"c1", "c2"}

\* ------------------------------------------------------------- bcrypt
\* A stored password text: bcrypt's output carries its salt.
Raw(text) == [bcrypt |-> FALSE, salt |-> Absent, digest |-> text]

hashSync(password, salt) == [bcrypt |-> TRUE, salt |-> salt, digest |-> <<salt, password>>]

compareSync(password, stored) ==
    /\ stored.bcrypt
    /\ hashSync(password, stored.salt) = stored

\* ------------------------------------------------------------- the store
NoUser == [id |-> 0, email |-> Absent, username |-> Absent, password |-> Raw(Absent)]

Ids(us) == 1..Len(us)

\* findOne({ email }) / findOne({ username }): the first match in natural order.
findOne(us, field, value) ==
    LET hits == {i \in Ids(us) : us[i][field] = value}
    IN IF hits = {} THEN NoUser
       ELSE us[CHOOSE i \in hits : \A j \in hits : i <= j]

\* A collection whose schema declares no unique index.
NoUniqueIndex(us, id, email) == FALSE

\* The unique index on email: a write that would give a second document the
\* same email is refused with a duplicate key error.
UniqueIndexRefuses(us, id, email) ==
    \E i \in Ids(us) : i # id /\ us[i].email = email

DuplicateKey == "E11000 duplicate key error"

\* Model.create(doc): the store generates the id.
create(us, doc) ==
    IF UniqueIndexRefuses(us, 0, doc.email)
    THEN [error |-> DuplicateKey, docs |-> us, doc |-> NoUser]
    ELSE LET new == [doc EXCEPT !.id = Len(us) + 1]
         IN [error |-> Absent, docs |-> Append(us, new), doc |-> new]

\* The fields an update sets: those present in it.
Merge(doc, update) ==
    [id |-> doc.id,
     email |-> IF update.email = Absent THEN doc.email ELSE update.email,
     username |-> IF update.username = Absent THEN doc.username ELSE update.username,
     password |-> IF update.password = Raw(Absent) THEN doc.password ELSE update.password]

\* findOneAndUpdate with upsert: true, which inserts when the filter finds nothing.
findOneAndUpdateUpsert(us, id, update) ==
    IF id \notin Ids(us)
    THEN [error |-> Absent, docs |-> Append(us, Merge([NoUser EXCEPT !.id = Len(us) + 1], update)),
          doc |-> NoUser]
    ELSE IF UniqueIndexRefuses(us, id, Merge(us[id], update).email)
    THEN [error |-> DuplicateKey, docs |-> us, doc |-> NoUser]
    ELSE [error |-> Absent, docs |-> [us EXCEPT ![id] = Merge(us[id], update)], doc |-> us[id]]

\* Model.findOneAndUpdate(filter by _id, update): no upsert, and (Mongoose's
\* default, new: false) the document returned is the one found, before the update.
findOneAndUpdate(us, id, update) ==
    IF id \notin Ids(us)
    THEN [error |-> Absent, docs |-> us, doc |-> NoUser]
    ELSE IF UniqueIndexRefuses(us, id, Merge(us[id], update).email)
    THEN [error |-> DuplicateKey, docs |-> us, doc |-> NoUser]
    ELSE [error |-> Absent, docs |-> [us EXCEPT ![id] = Merge(us[id], update)], doc |-> us[id]]

\* ------------------------------------------------------------- tokens
jwtSecret == "jwtSecret"

NoPayload == [id |-> 0, email |-> Absent, username |-> Absent]

JwtPayload(user) == [id |-> user.id, email |-> user.email, username |-> user.username]

sign(payload, secret) == [payload |-> payload, sig |-> secret]

\* Signing under a secret other than the one verifyUser checks against.
signJWTOtherSecret(payload) == sign(payload, "other")

signJWT(payload) == sign(payload, jwtSecret)

NoToken == [payload |-> NoPayload, sig |-> Absent]

Forged(token) == [token EXCEPT !.sig = "forged"]

verify(token) ==
    IF token.sig = jwtSecret
    THEN [error |-> Absent, payload |-> token.payload]
    ELSE [error |-> IF token.sig = Absent THEN "jwt malformed" ELSE "invalid signature",
          payload |-> NoPayload]

\* ------------------------------------------------------------- responses
Response(op, status, message, data, token) ==
    [op |-> op, status |-> status, message |-> message, data |-> data, token |-> token]

\* throw new RpcException({ status: 400, message }), also what every catch rethrows
RpcException(op, message) == Response(op, 400, message, NoUser, NoToken)

\* A success object carries no status; 0 stands for its absence.
Success(op, message, data, token) == Response(op, 0, message, data, token)

\* What the caller's side keeps of the last response.
Seen(r) == [op |-> r.op, status |-> r.status, message |-> r.message]

\* ------------------------------------------------------------- the DTOs
RegisterUserDto == [email : Emails, username : Usernames, password : Passwords]

LoginUserDto == [email : Emails, password : Passwords]

\* The tokens in callers' hands: issued at a registration or a login to a stored
\* user, under the username the user had then (updateUser may have changed it
\* since; its email is the present one, which no handler reads from a token);
\* a token signed by someone else; something that is no token.
Tokens ==
    LET issued == {signJWT([id |-> i, email |-> users[i].email, username |-> n]) :
                        i \in Ids(users), n \in Usernames}
    IN issued \cup {Forged(NoToken), NoToken}

\* @IsStrongPassword() on newPassword
IsStrongPassword(text) == text \in Passwords

\* @Match('newPassword') on repeatNewPassword
ChangePasswordDto ==
    {d \in [token : Tokens, password : Passwords,
            newPassword : Passwords, repeatNewPassword : Passwords] :
        /\ IsStrongPassword(d.newPassword)
        /\ d.repeatNewPassword = d.newPassword}

\* A partial update: the id and the fields to set, here at most one in a call
\* (an update of several fields writes what the updates of each would).
UpdateUserDto ==
    {d \in [id : 1..(MaxUsers + 1), email : Emails \cup {Absent},
            username : Usernames \cup {Absent}, password : Passwords \cup {Absent}] :
        Cardinality({f \in {"email", "username", "password"} : d[f] # Absent}) <= 1}

\* ------------------------------------------------------------- the calls
Idle == [pc |-> "idle", email |-> Absent, username |-> Absent, password |-> Absent]

Init ==
    /\ users = <<>>
    /\ calls = [p \in Procs |-> Idle]
    /\ resp = Seen(Response("none", 0, Absent, NoUser, NoToken))

\* ------------------------------------------------------------- registerUser
\* The lookup made by username, as changePassword makes it.
registerUserFindByUsername(us, dto) ==
    LET user == findOne(us, "username", dto.username)
    IN IF user # NoUser
       THEN [done |-> TRUE, docs |-> us,
             response |-> RpcException("registerUser", "User already exists")]
       ELSE [done |-> FALSE, docs |-> us,
             response |-> Response("none", 0, Absent, NoUser, NoToken)]

\* findOne({ email }) and the throw on a hit (lines 40-49)
registerUserFind(us, dto) ==
    LET user == findOne(us, "email", dto.email)
    IN IF user # NoUser
       THEN [done |-> TRUE, docs |-> us,
             response |-> RpcException("registerUser", "User already exists")]
       ELSE [done |-> FALSE, docs |-> us,
             response |-> Response("none", 0, Absent, NoUser, NoToken)]

\* create(dto) as it came, the password not hashed.
registerUserCreatePlain(us, dto, salt) ==
    LET r == create(us, [id |-> 0, email |-> dto.email, username |-> dto.username,
                         password |-> Raw(dto.password)])
    IN [docs |-> r.docs,
        response |-> IF r.error # Absent
                     THEN RpcException("registerUser", r.error)
                     ELSE Success("registerUser", "The user was created successfully",
                                  r.doc, signJWT(JwtPayload(r.doc)))]

\* create({ ...dto, password: hashSync(password, 10) }) and the response (lines 51-64)
registerUserCreate(us, dto, salt) ==
    LET r == create(us, [id |-> 0, email |-> dto.email, username |-> dto.username,
                         password |-> hashSync(dto.password, salt)])
    IN [docs |-> r.docs,
        response |-> IF r.error # Absent
                     THEN RpcException("registerUser", r.error)
                     ELSE Success("registerUser", "The user was created successfully",
                                  r.doc, signJWT(JwtPayload(r.doc)))]

Creating == {q \in Procs : calls[q].pc = "create"}

RegisterFind(p, dto) ==
    LET r == registerUserFind(users, dto)
    IN /\ calls[p].pc = "idle"
       /\ users' = r.docs
       /\ IF r.done
          THEN /\ resp' = Seen(r.response)
               /\ UNCHANGED calls
          ELSE /\ Len(users) + Cardinality(Creating) < MaxUsers
               /\ calls' = [calls EXCEPT ![p] = [Idle EXCEPT !.pc = "create",
                                !.email = dto.email, !.username = dto.username,
                                !.password = dto.password]]
               /\ UNCHANGED resp

RegisterCreate(p) ==
    /\ calls[p].pc = "create"
    /\ \E salt \in Salts :
         LET r == registerUserCreate(users, calls[p], salt)
         IN /\ users' = r.docs
            /\ resp' = Seen(r.response)
    /\ calls' = [calls EXCEPT ![p] = Idle]

\* ------------------------------------------------------------- loginUser
\* A login that tells an unknown email from a wrong password.
loginUserTelling(us, dto) ==
    LET user == findOne(us, "email", dto.email)
    IN IF user = NoUser
       THEN RpcException("loginUser", "User not found")
       ELSE IF ~compareSync(dto.password, user.password)
       THEN RpcException("loginUser", "User/Password not valid")
       ELSE Success("loginUser", "The user logged in correctly", user,
                    signJWT(JwtPayload(user)))

loginUser(us, dto) ==
    LET user == findOne(us, "email", dto.email)
    IN IF user = NoUser
       THEN RpcException("loginUser", "User/Password not valid")
       ELSE IF ~compareSync(dto.password, user.password)
       THEN RpcException("loginUser", "User/Password not valid")
       ELSE Success("loginUser", "The user logged in correctly", user,
                    signJWT(JwtPayload(user)))

Login(dto) ==
    /\ resp' = Seen(loginUser(users, dto))
    /\ UNCHANGED <<users, calls>>

\* ------------------------------------------------------------- verifyUser
\* const { sub, iat, exp, ...data } = verify(token): the payload's own fields
Data(payload) ==
    [id |-> payload.id, email |-> payload.email, username |-> payload.username,
     password |-> Raw(Absent)]

verifyUser(token) ==
    LET decoded == verify(token)
    IN IF decoded.error # Absent
       THEN RpcException("verifyUser", decoded.error)
       ELSE Success("verifyUser", "Successfully verified user",
                    Data(decoded.payload), signJWT(JwtPayload(Data(decoded.payload))))

Verify(token) ==
    /\ resp' = Seen(verifyUser(token))
    /\ UNCHANGED <<users, calls>>

\* ------------------------------------------------------------- changePassword
\* verify(token), findOne({ username: decoded.username }), compareSync, then
\* findOneAndUpdate(user._id, { password: hashSync(newPassword, 10) }) and the
\* response (lines 172-200).  Mongoose reads an ObjectId given as the filter as
\* { _id: it }.
changePassword(us, dto, salt) ==
    LET decoded == verify(dto.token)
        user == findOne(us, "username", decoded.payload.username)
        thrown(message) == [docs |-> us, response |-> RpcException("changePassword", message)]
        r == findOneAndUpdate(us, user.id,
                [email |-> Absent, username |-> Absent,
                 password |-> hashSync(dto.newPassword, salt)])
    IN IF decoded.error # Absent THEN thrown(decoded.error)
       ELSE IF user = NoUser THEN thrown("User not valid")
       ELSE IF ~compareSync(dto.password, user.password) THEN thrown("Password not valid")
       ELSE IF r.error # Absent THEN thrown(r.error)
       ELSE [docs |-> r.docs,
             response |-> Success("changePassword", "Password changed successfully",
                                  r.doc, NoToken)]

ChangePassword(dto) ==
    /\ \E salt \in Salts :
         LET r == changePassword(users, dto, salt)
         IN /\ users' = r.docs
            /\ resp' = Seen(r.response)
    /\ UNCHANGED calls

\* ------------------------------------------------------------- updateUser
\* The update document: the dto's fields as they came.
UpdateOf(dto) ==
    [email |-> dto.email, username |-> dto.username, password |-> Raw(dto.password)]

\* No try/catch here: what the store throws reaches the transport as it is (500).
updateUser(us, dto) ==
    LET r == findOneAndUpdate(us, dto.id, UpdateOf(dto))
        echo == [id |-> dto.id, email |-> dto.email, username |-> dto.username,
                 password |-> Raw(dto.password)]
    IN [docs |-> r.docs,
        response |->
            IF r.error # Absent
            THEN Response("updateUser", 500, r.error, NoUser, NoToken)
            ELSE IF r.doc = NoUser
            THEN RpcException("updateUser", "User's information could not be updated")
            ELSE Success("updateUser", "User information updated correctly", echo, NoToken)]

Update(dto) ==
    /\ users' = updateUser(users, dto).docs
    /\ resp' = Seen(updateUser(users, dto).response)
    /\ UNCHANGED calls

\* ------------------------------------------------------------- the service
Next ==
    \/ \E p \in Procs, dto \in RegisterUserDto : RegisterFind(p, dto)
    \/ \E p \in Procs : RegisterCreate(p)
    \/ \E dto \in LoginUserDto : Login(dto)
    \/ \E token \in Tokens : Verify(token)
    \/ \E dto \in ChangePasswordDto : ChangePassword(dto)
    \/ \E dto \in UpdateUserDto : Update(dto)

Spec == Init /\ [][Next]_vars

\* ------------------------------------------------------------- properties
StoredEmails(us) == {us[i].email : i \in Ids(us)}

Succeeded(response) == response.status = 0

Failure(response) == [status |-> response.status, message |-> response.message]

\* The user a token was issued to.
Sub(token) == verify(token).payload.id

JwtPayloads == [id : 1..MaxUsers, email : Emails, username : Usernames]

\* C1: once changePassword succeeds for a token issued to a user, with that
\* user's old password and a different new one, loginUser with the user's email
\* fails with the old password and succeeds with the new one.
C1_LoginAfterChangePassword ==
    \A dto \in ChangePasswordDto, salt \in Salts :
        LET r == changePassword(users, dto, salt)
            sub == Sub(dto.token)
        IN (/\ Succeeded(r.response)
            /\ sub \in Ids(users)
            /\ compareSync(dto.password, users[sub].password)
            /\ dto.newPassword # dto.password)
           => /\ ~Succeeded(loginUser(r.docs, [email |-> r.docs[sub].email,
                                               password |-> dto.password]))
              /\ Succeeded(loginUser(r.docs, [email |-> r.docs[sub].email,
                                              password |-> dto.newPassword]))

\* C2: registerUser with an email a stored user has fails with 400 'User
\* already exists' and writes nothing: no user is created, none is changed.
C2_RegisterExistingEmail ==
    \A dto \in RegisterUserDto :
        dto.email \in StoredEmails(users)
        => LET r == registerUserFind(users, dto)
           IN /\ r.done
              /\ Failure(r.response) = [status |-> 400, message |-> "User already exists"]
              /\ r.docs = users

C2_Witness ==
    /\ resp.op = "registerUser"
    /\ resp.message = "User already exists"

\* C3: after registerUser(email, password) succeeds, loginUser(email, password)
\* succeeds and verifyUser accepts the token it returns.
C3_LoginAfterRegister ==
    \A p \in Procs, salt \in Salts :
        calls[p].pc = "create"
        => LET r == registerUserCreate(users, calls[p], salt)
               login == loginUser(r.docs, [email |-> calls[p].email,
                                           password |-> calls[p].password])
           IN Succeeded(r.response)
              => /\ Succeeded(login)
                 /\ Succeeded(verifyUser(login.token))

C3_Witness ==
    /\ resp.op = "registerUser"
    /\ Succeeded(resp)
    /\ users # <<>>

\* C4: loginUser with a registered email and a wrong password and loginUser with
\* an email no user has fail with the same status and message.
C4_SameLoginFailure ==
    \A known \in LoginUserDto, unknown \in LoginUserDto :
        (/\ known.email \in StoredEmails(users)
         /\ ~compareSync(known.password, findOne(users, "email", known.email).password)
         /\ unknown.email \notin StoredEmails(users))
        => /\ ~Succeeded(loginUser(users, known))
           /\ ~Succeeded(loginUser(users, unknown))
           /\ loginUser(users, known) = loginUser(users, unknown)

C4_Witness ==
    /\ resp.op = "loginUser"
    /\ ~Succeeded(resp)
    /\ StoredEmails(users) # {}
    /\ StoredEmails(users) # Emails

\* C5: the password of every stored user is an output of the hash, never the
\* text a caller supplied.
C5_PasswordsHashed ==
    \A i \in Ids(users) :
        \E password \in Passwords, salt \in Salts :
            users[i].password = hashSync(password, salt)

\* C6: updateUser with an id no stored user has fails with 400 "User's
\* information could not be updated" and writes nothing.
C6_UpdateUnknownId ==
    \A dto \in UpdateUserDto :
        dto.id \notin Ids(users)
        => LET r == updateUser(users, dto)
           IN /\ Failure(r.response) =
                    [status |-> 400, message |-> "User's information could not be updated"]
              /\ r.docs = users

C6_Witness ==
    /\ resp.op = "updateUser"
    /\ resp.status = 400
    /\ users # <<>>

\* C7: no two stored users have the same email, and of two registerUser calls
\* with the same email that both passed their lookup, at most one creates a user.
C7_EmailUnique ==
    /\ \A i, j \in Ids(users) : users[i].email = users[j].email => i = j
    /\ \A p, q \in Procs, s1, s2 \in Salts :
         (/\ p # q
          /\ calls[p].pc = "create"
          /\ calls[q].pc = "create"
          /\ calls[p].email = calls[q].email)
         => LET first == registerUserCreate(users, calls[p], s1)
                second == registerUserCreate(first.docs, calls[q], s2)
            IN ~(Succeeded(first.response) /\ Succeeded(second.response))

C7_Witness ==
    /\ resp.op = "registerUser"
    /\ resp.message = DuplicateKey
    /\ \E p \in Procs : calls[p].pc = "idle"

\* C8: the record a successful changePassword returns is the stored record
\* after the call, carrying the hash of newPassword.
C8_ReturnsUpdatedRecord ==
    \A dto \in ChangePasswordDto, salt \in Salts :
        LET r == changePassword(users, dto, salt)
            data == r.response.data
        IN Succeeded(r.response)
           => /\ data.id \in Ids(r.docs)
              /\ data = r.docs[data.id]
              /\ compareSync(dto.newPassword, data.password)

\* C9: verifyUser(signJWT(payload)) succeeds with the payload's id, email and
\* username, and with a token verifyUser accepts again with the same three.
C9_VerifyRoundTrip ==
    \A payload \in JwtPayloads \cup {t.payload : t \in Tokens \ {NoToken, Forged(NoToken)}} :
        LET r == verifyUser(signJWT(payload))
            again == verifyUser(r.token)
        IN /\ Succeeded(r)
           /\ JwtPayload(r.data) = payload
           /\ Succeeded(again)
           /\ JwtPayload(again.data) = payload

C9_Witness ==
    /\ resp.op = "verifyUser"
    /\ Succeeded(resp)

\* C10: a successful changePassword compares the old password against the hash
\* of the user the token was issued to and changes that user's password only:
\* every other user, and every other field of that user, stays as it was.
C10_ChangesTokenUserOnly ==
    \A dto \in ChangePasswordDto, salt \in Salts :
        LET r == changePassword(users, dto, salt)
            sub == Sub(dto.token)
        IN Succeeded(r.response)
           => /\ sub \in Ids(users)
              /\ compareSync(dto.password, users[sub].password)
              /\ \A i \in Ids(users) \ {sub} : r.docs[i] = users[i]
              /\ r.docs = [users EXCEPT ![sub].password = r.docs[sub].password]

====
